---- MODULE Spec2Model ----
(***************************************************************************)
(* Registry center server of the mesh controller                          *)
(* (pkg/object/meshcontroller/registrycenter/registry.go).                 *)
(*                                                                         *)
(* One Server (`rcs`) is modelled together with its callers: up to         *)
(* MaxRegister calls of Register (each may spawn one goroutine running     *)
(* rcs.register), one observer thread polling Registered(), calls of       *)
(* Close, the two readiness predicates, and the instance record kept       *)
(* under (serviceName, instanceID) by the store behind rcs.service.  No    *)
(* other writer touches that record while the Server runs.                 *)
(*                                                                         *)
(* The cluster storage facade (package storage: New, mutexGoReady, Lock,   *)
(* Unlock) is modelled next to it, with MaxThreads threads calling Lock    *)
(* and Unlock on one clusterStorage; StorageSpec is its specification.     *)
(***************************************************************************)
EXTENDS Integers, Sequences, FiniteSets, TLC

\* ---------------------------------------------------------------- bounds
\* Number of Register calls made on the Server (call i spawns goroutine i).
MaxRegister == 2
\* Cap on the attempts (runs of routine(), counted by tryTimes++) of the Server.
MaxTries == 2
\* Number of runtime faults (panics inside routine()) the environment injects.
MaxFaults == 1
\* Number of Close calls made on the Server.
MaxClose == 2

\* Threads calling Lock / Unlock on one clusterStorage.
MaxThreads == 2
\* Calls of Lock or Unlock made on one clusterStorage.
MaxFacadeCalls == 4
\* Number of times cls.Mutex(name) fails (the call made by New included).
MaxCreateFails == 2

\* time.Sleep(1 * time.Second): seconds slept per iteration.
SleepSeconds == 1

Calls == 1..MaxRegister

\* nil pointer to a spec.ServiceInstanceSpec or spec.Service / absent record
Nil == [nil |-> TRUE]

\* ------------------------------------------------------------ identities
ServiceName == "orders"
InstanceID  == "i-1"
ServerIP    == "10.0.0.5"
OtherIP     == "10.0.0.6"
\* serviceSpec.Sidecar.IngressPort of the service, and another port.
IngressPorts == {8080}
OtherPorts  == {9090}
ServiceLabels == "labels-own"
OtherLabels   == "labels-other"
SerivceStatusUp == "up"
StatusOutOfService == "OUT_OF_SERVICE"

\* serviceSpec.RegisterTenant passed by the t-th Register call.
TenantOf(t) == "tenant-" \o ToString(t)

\* time.Now().Format(time.RFC3339): the formatted text of second n.
FormatRFC3339(n) == "1970-01-01T00:00:0" \o ToString(n) \o "Z"

\* spec.ServiceInstanceSpec
InstanceSpec(ip, port, labels, status, regTime) ==
    [ServiceName |-> ServiceName, InstanceID |-> InstanceID, IP |-> ip, Port |-> port,
     Labels |-> labels, Status |-> status, RegistryTime |-> regTime]

\* Records another owner may have left under (serviceName, instanceID)
\* before this Server starts: none, one with this Server's IP (other labels,
\* status and time), one at another IP, one at another port.
InitialStore ==
    {Nil}
    \cup {InstanceSpec(ServerIP, p, OtherLabels, StatusOutOfService, FormatRFC3339(0)) :
            p \in IngressPorts}
    \cup {InstanceSpec(OtherIP, p, ServiceLabels, SerivceStatusUp, FormatRFC3339(0)) :
            p \in IngressPorts}
    \cup {InstanceSpec(ServerIP, p, ServiceLabels, SerivceStatusUp, FormatRFC3339(0)) :
            p \in OtherPorts}

VARIABLES
    pc,            \* per Register call / goroutine: position in Register and register
    serviceSpec,   \* per call: the serviceSpec argument (RegisterTenant, IngressPort)
    ins,           \* per call: the *spec.ServiceInstanceSpec built by Register
    tryTimes,      \* sum of the goroutines' tryTimes counters
    att,           \* per goroutine: what its current routine() run did (history)
    registered,    \* rcs.registered
    tenant,        \* rcs.tenant
    done,          \* rcs.done: "open" or "closed"
    mutexWriter,   \* rcs.mutex: set of goroutines holding the write lock (at most one)
    mutexReaders,  \* rcs.mutex: number of read locks held
    store,         \* record under (serviceName, instanceID) in the registry store
    gatesSettled,  \* TRUE once ingress and egress are ready for good
    qpc,           \* observer thread: position in Registered()
    closeCalls,    \* number of Close calls made
    closeSignals,  \* number of times rcs.done was closed
    closePanics,   \* number of Close calls that panicked (close of closed channel)
    faults,        \* number of panics raised inside routine()
    now,           \* wall clock, in seconds
    storeReads,    \* number of GetServiceInstanceSpec calls issued
    storeWrites,   \* number of PutServiceInstanceSpec calls issued
    csMutex,       \* cs.mutex: {} (nil) or {h}, h the handle installed
    created,       \* number of handles cls.Mutex(name) has returned (handles 1..created)
    createFails,   \* number of cls.Mutex(name) calls that returned an error
    installs,      \* number of assignments cs.mutex = mutex
    lockCalls,     \* number of calls of Lock/Unlock of the underlying cluster.Mutex
    locked,        \* handles of the underlying mutex that are locked
    tpc,           \* per thread: position in Lock / Unlock / mutexGoReady
    top,           \* per thread: the facade method it is in or was last in
    tlocal,        \* per thread: the local `mutex` of mutexGoReady ({} or {h})
    tret,          \* per thread: what its last call returned ("none", "ok", "error")
    tcalls,        \* number of calls of Lock / Unlock made
    theld          \* per thread: the handle its last successful Lock locked ({} or {h})

\* The Server and its environment.
server == <<pc, serviceSpec, ins, tryTimes, att, registered, tenant, done, mutexWriter,
            mutexReaders, store, gatesSettled, qpc, closeCalls, closeSignals,
            closePanics, faults, now, storeReads, storeWrites>>
\* The clusterStorage and its callers.
facade == <<csMutex, created, createFails, installs, lockCalls, locked, tpc, top,
            tlocal, tret, tcalls, theld>>

vars == <<server, facade>>

Threads == 1..MaxThreads

\* A goroutine of rcs.register exists (started, not returned) at these positions.
TaskPcs == {"select", "lock", "gates", "read", "put", "sleep"}
\* Positions inside routine() (the attempt), and those holding rcs.mutex.
AttemptPcs == {"gates", "read", "put"}
LockedPcs == {"gates", "read", "put", "sleep"}

\* History of one run of routine(): the answers of the two readiness
\* predicates (once evaluated), the store calls issued, the record read, whether
\* a panic was recovered, whether rcs.done was closed when the run started, the
\* record in the store when it started, whether the run set rcs.registered.
NoAttempt == [evaluated |-> FALSE, ingress |-> FALSE, egress |-> FALSE,
              reads |-> 0, writes |-> 0, origin |-> Nil, fault |-> FALSE,
              afterClose |-> FALSE, before |-> Nil, setRegistered |-> FALSE]

\* No clusterStorage has been constructed.
NoFacade ==
    /\ csMutex = {}
    /\ created = 0
    /\ createFails = 0
    /\ installs = 0
    /\ lockCalls = 0
    /\ locked = {}
    /\ tpc = [th \in Threads |-> "idle"]
    /\ top = [th \in Threads |-> "none"]
    /\ tlocal = [th \in Threads |-> {}]
    /\ tret = [th \in Threads |-> "none"]
    /\ tcalls = 0
    /\ theld = [th \in Threads |-> {}]

\* NewRegistryCenterServer: the fields of a new Server and its environment.
NewRegistryCenterServer ==
    /\ pc = [t \in Calls |-> "none"]
    /\ serviceSpec = [t \in Calls |-> Nil]
    /\ ins = [t \in Calls |-> Nil]
    /\ tryTimes = 0
    /\ att = [t \in Calls |-> NoAttempt]
    /\ registered = FALSE
    /\ tenant = ""
    /\ done = "open"
    /\ mutexWriter = {}
    /\ mutexReaders = 0
    /\ store \in InitialStore
    /\ gatesSettled = FALSE
    /\ qpc = "idle"
    /\ closeCalls = 0
    /\ closeSignals = 0
    /\ closePanics = 0
    /\ faults = 0
    /\ now = 1
    /\ storeReads = 0
    /\ storeWrites = 0

\* A new Server; no clusterStorage is in use.
Init == NoFacade /\ NewRegistryCenterServer

\* ------------------------------------------------------------ sync.RWMutex
\* rcs.mutex.RLock() returns only while no writer holds the lock.  (Go also
\* holds back new readers while a writer is waiting; that only removes
\* interleavings.)
CanRLock == mutexWriter = {}
\* Variant of CanLock that does not wait for a writer (as if register took
\* the read lock).
CanLock_NoExclusion == mutexReaders = 0

\* rcs.mutex.Lock() returns only while nobody holds the lock.
CanLock == mutexWriter = {} /\ mutexReaders = 0

\* ------------------------------------------------------- Server.Register
\* Register entered: rcs.tenant = serviceSpec.RegisterTenant, then the call
\* goes on to rcs.Registered().  Calls are numbered in the order they enter.
RegisterCall(t) ==
    /\ pc[t] = "none"
    /\ t > 1 => pc[t - 1] # "none"
    /\ \E port \in IngressPorts :
          serviceSpec' = [serviceSpec EXCEPT ![t] =
                             [RegisterTenant |-> TenantOf(t), IngressPort |-> port]]
    /\ tenant' = TenantOf(t)
    /\ pc' = [pc EXCEPT ![t] = "reg_rlock"]
    /\ UNCHANGED facade
    /\ UNCHANGED <<ins, tryTimes, att, registered, done, mutexWriter, mutexReaders, store,
                   gatesSettled, qpc, closeCalls, closeSignals, closePanics,
                   faults, now, storeReads, storeWrites>>

\* rcs.Registered() inside Register: rcs.mutex.RLock().
RegisterRLock(t) ==
    /\ pc[t] = "reg_rlock"
    /\ CanRLock
    /\ mutexReaders' = mutexReaders + 1
    /\ pc' = [pc EXCEPT ![t] = "reg_read"]
    /\ UNCHANGED facade
    /\ UNCHANGED <<serviceSpec, ins, tryTimes, att, registered, tenant, done, mutexWriter,
                   store, gatesSettled, qpc, closeCalls, closeSignals,
                   closePanics, faults, now, storeReads, storeWrites>>

\* The ins built by Register from the static identity and the ingress port.
NewIns(t) == InstanceSpec(ServerIP, serviceSpec[t].IngressPort, ServiceLabels, "", "")

\* Registered() returns (RUnlock); Register returns if it is true, otherwise
\* builds ins and starts the goroutine: go rcs.register(ins, ...).
RegisterGo(t) ==
    /\ pc[t] = "reg_read"
    /\ mutexReaders' = mutexReaders - 1
    /\ IF registered
          THEN /\ pc' = [pc EXCEPT ![t] = "returned"]
               /\ ins' = ins
          ELSE /\ pc' = [pc EXCEPT ![t] = "select"]
               /\ ins' = [ins EXCEPT ![t] = NewIns(t)]
    /\ UNCHANGED facade
    /\ UNCHANGED <<serviceSpec, tryTimes, att, registered, tenant, done, mutexWriter, store,
                   gatesSettled, qpc, closeCalls, closeSignals, closePanics,
                   faults, now, storeReads, storeWrites>>

\* Variant of needUpdateRecord that also asks for a rewrite when only the
\* labels differ.
needUpdateRecord_LabelDrift(originIns, newIns) ==
    IF originIns = Nil THEN TRUE
    ELSE IF originIns.IP # newIns.IP \/ originIns.Port # newIns.Port
            \/ originIns.Labels # newIns.Labels THEN TRUE
    ELSE FALSE

\* ------------------------------------------------------- needUpdateRecord
needUpdateRecord(originIns, newIns) ==
    IF originIns = Nil THEN TRUE
    ELSE IF originIns.IP # newIns.IP \/ originIns.Port # newIns.Port THEN TRUE
    ELSE FALSE

\* ------------------------------------------------------- Server.register
\* Variant of SelectDone that also gives up once MaxTries attempts were made.
SelectDone_GiveUp(t) ==
    /\ pc[t] = "select"
    /\ done = "closed" \/ tryTimes >= MaxTries
    /\ pc' = [pc EXCEPT ![t] = "stopped"]
    /\ UNCHANGED facade
    /\ UNCHANGED <<serviceSpec, ins, tryTimes, att, registered, tenant, done, mutexWriter,
                   mutexReaders, store, gatesSettled, qpc, closeCalls,
                   closeSignals, closePanics, faults, now, storeReads, storeWrites>>

\* select { case <-rcs.done: return
SelectDone(t) ==
    /\ pc[t] = "select"
    /\ done = "closed"
    /\ pc' = [pc EXCEPT ![t] = "stopped"]
    /\ UNCHANGED facade
    /\ UNCHANGED <<serviceSpec, ins, tryTimes, att, registered, tenant, done, mutexWriter,
                   mutexReaders, store, gatesSettled, qpc, closeCalls,
                   closeSignals, closePanics, faults, now, storeReads, storeWrites>>

\* Variant of SelectDefault that takes the default branch whether or not
\* rcs.done is closed.
SelectDefault_IgnoreDone(t) ==
    /\ pc[t] = "select"
    /\ tryTimes < MaxTries \/ registered \/ gatesSettled
    /\ pc' = [pc EXCEPT ![t] = "lock"]
    /\ UNCHANGED facade
    /\ UNCHANGED <<serviceSpec, ins, tryTimes, att, registered, tenant, done, mutexWriter,
                   mutexReaders, store, gatesSettled, qpc, closeCalls,
                   closeSignals, closePanics, faults, now, storeReads, storeWrites>>

\* select { default: -- taken while rcs.done is open.  The loop has no
\* attempt limit; the model lets an iteration start only while fewer than
\* MaxTries attempts were made, or when the iteration is one that exits as
\* registered, or once the gates are ready for good (from then on only a
\* fault makes an attempt fail, and faults are bounded).
SelectDefault(t) ==
    /\ pc[t] = "select"
    /\ done = "open"
    /\ tryTimes < MaxTries \/ registered \/ gatesSettled
    /\ pc' = [pc EXCEPT ![t] = "lock"]
    /\ UNCHANGED facade
    /\ UNCHANGED <<serviceSpec, ins, tryTimes, att, registered, tenant, done, mutexWriter,
                   mutexReaders, store, gatesSettled, qpc, closeCalls,
                   closeSignals, closePanics, faults, now, storeReads, storeWrites>>

\* Variant of Lock that does not look at rcs.registered after taking the
\* lock: routine() always runs.
Lock_NoRegisteredCheck(t) ==
    /\ pc[t] = "lock"
    /\ CanLock
    /\ mutexWriter' = {t}
    /\ tryTimes' = tryTimes + 1
    /\ att' = [att EXCEPT ![t] =
                 [NoAttempt EXCEPT !.afterClose = (done = "closed"), !.before = store]]
    /\ pc' = [pc EXCEPT ![t] = "gates"]
    /\ UNCHANGED facade
    /\ UNCHANGED <<serviceSpec, ins, registered, tenant, done, mutexReaders, store,
                   gatesSettled, qpc, closeCalls, closeSignals, closePanics,
                   faults, now, storeReads, storeWrites>>

\* rcs.mutex.Lock(); if rcs.registered { rcs.mutex.Unlock(); return };
\* otherwise routine() starts: tryTimes++.
Lock(t) ==
    /\ pc[t] = "lock"
    /\ CanLock
    /\ IF registered
          THEN /\ mutexWriter' = {}
               /\ pc' = [pc EXCEPT ![t] = "exited"]
               /\ UNCHANGED <<tryTimes, att>>
          ELSE /\ mutexWriter' = {t}
               /\ tryTimes' = tryTimes + 1
               /\ att' = [att EXCEPT ![t] =
                            [NoAttempt EXCEPT !.afterClose = (done = "closed"),
                                              !.before = store]]
               /\ pc' = [pc EXCEPT ![t] = "gates"]
    /\ UNCHANGED facade
    /\ UNCHANGED <<serviceSpec, ins, registered, tenant, done, mutexReaders, store,
                   gatesSettled, qpc, closeCalls, closeSignals, closePanics,
                   faults, now, storeReads, storeWrites>>

\* What a readiness predicate may answer now.
GateAnswers == IF gatesSettled THEN {TRUE} ELSE BOOLEAN

\* Variant of NotReady that forgets the egress predicate.
NotReady_IngressOnly(ingressReady, egressReady) == ~ingressReady

\* if !ingressReady() || !egressReady() { log; return }
\* (the log line calls both predicates once more; their answers are not used)
NotReady(ingressReady, egressReady) == ~ingressReady \/ ~egressReady

Gates(t) ==
    /\ pc[t] = "gates"
    /\ \E ingressReady \in GateAnswers, egressReady \in GateAnswers :
          /\ att' = [att EXCEPT ![t].evaluated = TRUE, ![t].ingress = ingressReady,
                                ![t].egress = egressReady]
          /\ pc' = [pc EXCEPT ![t] = IF NotReady(ingressReady, egressReady)
                                        THEN "sleep" ELSE "read"]
    /\ UNCHANGED facade
    /\ UNCHANGED <<serviceSpec, ins, tryTimes, registered, tenant, done, mutexWriter,
                   mutexReaders, store, gatesSettled, qpc, closeCalls,
                   closeSignals, closePanics, faults, now, storeReads, storeWrites>>

\* A readiness predicate panics: the deferred recover() ends routine().
GateFault(t) ==
    /\ pc[t] = "gates"
    /\ faults < MaxFaults
    /\ faults' = faults + 1
    /\ att' = [att EXCEPT ![t].fault = TRUE]
    /\ pc' = [pc EXCEPT ![t] = "sleep"]
    /\ UNCHANGED facade
    /\ UNCHANGED <<serviceSpec, ins, tryTimes, registered, tenant, done, mutexWriter,
                   mutexReaders, store, gatesSettled, qpc, closeCalls,
                   closeSignals, closePanics, now, storeReads, storeWrites>>

\* Variant of Stamped that stamps the time but leaves Status unset.
Stamped_NoStatus(newIns) ==
    [newIns EXCEPT !.RegistryTime = FormatRFC3339(now)]

\* ins.Status = up; ins.RegistryTime = time.Now().Format(time.RFC3339)
Stamped(newIns) ==
    [newIns EXCEPT !.Status = SerivceStatusUp, !.RegistryTime = FormatRFC3339(now)]

\* originIns := rcs.service.GetServiceInstanceSpec(serviceName, instanceID)
\* returns.  If originIns != nil and !needUpdateRecord: registered = true,
\* return.  Otherwise ins is stamped and rcs.registered = true, and then
\* PutServiceInstanceSpec is called.
Read(t) ==
    /\ pc[t] = "read"
    /\ storeReads' = storeReads + 1
    /\ LET originIns == store
           same == originIns # Nil /\ ~needUpdateRecord(originIns, ins[t])
       IN /\ att' = [att EXCEPT ![t].reads = @ + 1, ![t].origin = originIns,
                                ![t].setRegistered = TRUE]
          /\ registered' = TRUE
          /\ ins' = IF same THEN ins ELSE [ins EXCEPT ![t] = Stamped(ins[t])]
          /\ pc' = [pc EXCEPT ![t] = IF same THEN "sleep" ELSE "put"]
    /\ UNCHANGED facade
    /\ UNCHANGED <<serviceSpec, tryTimes, tenant, done, mutexWriter, mutexReaders,
                   store, gatesSettled, qpc, closeCalls, closeSignals,
                   closePanics, faults, now, storeWrites>>

\* GetServiceInstanceSpec panics (store failure): recovered, routine() ends.
ReadFault(t) ==
    /\ pc[t] = "read"
    /\ faults < MaxFaults
    /\ faults' = faults + 1
    /\ storeReads' = storeReads + 1
    /\ att' = [att EXCEPT ![t].reads = @ + 1, ![t].fault = TRUE]
    /\ pc' = [pc EXCEPT ![t] = "sleep"]
    /\ UNCHANGED facade
    /\ UNCHANGED <<serviceSpec, ins, tryTimes, registered, tenant, done, mutexWriter,
                   mutexReaders, store, gatesSettled, qpc, closeCalls,
                   closeSignals, closePanics, now, storeWrites>>

\* rcs.service.PutServiceInstanceSpec(ins) returns: the record is stored.
Put(t) ==
    /\ pc[t] = "put"
    /\ store' = ins[t]
    /\ storeWrites' = storeWrites + 1
    /\ att' = [att EXCEPT ![t].writes = @ + 1]
    /\ pc' = [pc EXCEPT ![t] = "sleep"]
    /\ UNCHANGED facade
    /\ UNCHANGED <<serviceSpec, ins, tryTimes, registered, tenant, done, mutexWriter,
                   mutexReaders, gatesSettled, qpc, closeCalls, closeSignals,
                   closePanics, faults, now, storeReads>>

\* Variant of PutFault in which the recovered panic takes rcs.registered
\* back to false.
PutFault_Rollback(t) ==
    /\ pc[t] = "put"
    /\ faults < MaxFaults
    /\ faults' = faults + 1
    /\ storeWrites' = storeWrites + 1
    /\ registered' = FALSE
    /\ att' = [att EXCEPT ![t].writes = @ + 1, ![t].fault = TRUE]
    /\ pc' = [pc EXCEPT ![t] = "sleep"]
    /\ UNCHANGED facade
    /\ UNCHANGED <<serviceSpec, ins, tryTimes, tenant, done, mutexWriter,
                   mutexReaders, store, gatesSettled, qpc, closeCalls,
                   closeSignals, closePanics, now, storeReads>>

\* PutServiceInstanceSpec panics (store failure): nothing is stored; the
\* deferred recover() ends routine(); rcs.registered stays true.
PutFault(t) ==
    /\ pc[t] = "put"
    /\ faults < MaxFaults
    /\ faults' = faults + 1
    /\ storeWrites' = storeWrites + 1
    /\ att' = [att EXCEPT ![t].writes = @ + 1, ![t].fault = TRUE]
    /\ pc' = [pc EXCEPT ![t] = "sleep"]
    /\ UNCHANGED facade
    /\ UNCHANGED <<serviceSpec, ins, tryTimes, registered, tenant, done, mutexWriter,
                   mutexReaders, store, gatesSettled, qpc, closeCalls,
                   closeSignals, closePanics, now, storeReads>>

\* Variant of SleepUnlock that goes back to the select without Unlock.
SleepUnlock_KeepLock(t) ==
    /\ pc[t] = "sleep"
    /\ now' = now + SleepSeconds
    /\ att' = [att EXCEPT ![t] = NoAttempt]
    /\ pc' = [pc EXCEPT ![t] = "select"]
    /\ UNCHANGED facade
    /\ UNCHANGED <<serviceSpec, ins, tryTimes, registered, tenant, done, mutexWriter,
                   mutexReaders, store, gatesSettled, qpc, closeCalls, closeSignals,
                   closePanics, faults, storeReads, storeWrites>>

\* time.Sleep(1 * time.Second); rcs.mutex.Unlock(); back to the select.
SleepUnlock(t) ==
    /\ pc[t] = "sleep"
    /\ now' = now + SleepSeconds
    /\ mutexWriter' = {}
    /\ att' = [att EXCEPT ![t] = NoAttempt]
    /\ pc' = [pc EXCEPT ![t] = "select"]
    /\ UNCHANGED facade
    /\ UNCHANGED <<serviceSpec, ins, tryTimes, registered, tenant, done, mutexReaders,
                   store, gatesSettled, qpc, closeCalls, closeSignals,
                   closePanics, faults, storeReads, storeWrites>>

\* Variant of Close that signals on every call and never panics.
Close_Resignal ==
    /\ closeCalls < MaxClose
    /\ closeCalls' = closeCalls + 1
    /\ done' = "closed"
    /\ closeSignals' = closeSignals + 1
    /\ closePanics' = closePanics
    /\ UNCHANGED facade
    /\ UNCHANGED <<pc, serviceSpec, ins, tryTimes, att, registered, tenant, mutexWriter,
                   mutexReaders, store, gatesSettled, qpc, faults, now,
                   storeReads, storeWrites>>

\* ------------------------------------------------------- Server.Close
\* close(rcs.done): closes an open channel; panics on a closed one.
Close ==
    /\ closeCalls < MaxClose
    /\ closeCalls' = closeCalls + 1
    /\ IF done = "open"
          THEN /\ done' = "closed"
               /\ closeSignals' = closeSignals + 1
               /\ closePanics' = closePanics
          ELSE /\ done' = done
               /\ closeSignals' = closeSignals
               /\ closePanics' = closePanics + 1
    /\ UNCHANGED facade
    /\ UNCHANGED <<pc, serviceSpec, ins, tryTimes, att, registered, tenant, mutexWriter,
                   mutexReaders, store, gatesSettled, qpc, faults, now,
                   storeReads, storeWrites>>

\* ------------------------------------------------------- Server.Registered
\* The observer thread calls Registered().
RegisteredCall ==
    /\ qpc = "idle"
    /\ qpc' = "rlock"
    /\ UNCHANGED facade
    /\ UNCHANGED <<pc, serviceSpec, ins, tryTimes, att, registered, tenant, done,
                   mutexWriter, mutexReaders, store, gatesSettled, closeCalls,
                   closeSignals, closePanics, faults, now, storeReads, storeWrites>>

\* rcs.mutex.RLock()
RegisteredRLock ==
    /\ qpc = "rlock"
    /\ CanRLock
    /\ mutexReaders' = mutexReaders + 1
    /\ qpc' = "read"
    /\ UNCHANGED facade
    /\ UNCHANGED <<pc, serviceSpec, ins, tryTimes, att, registered, tenant, done,
                   mutexWriter, store, gatesSettled, closeCalls, closeSignals,
                   closePanics, faults, now, storeReads, storeWrites>>

\* return rcs.registered (deferred RUnlock): the value returned is that of
\* rcs.registered in this step.
RegisteredReturn ==
    /\ qpc = "read"
    /\ mutexReaders' = mutexReaders - 1
    /\ qpc' = "idle"
    /\ UNCHANGED facade
    /\ UNCHANGED <<pc, serviceSpec, ins, tryTimes, att, registered, tenant, done,
                   mutexWriter, store, gatesSettled, closeCalls, closeSignals,
                   closePanics, faults, now, storeReads, storeWrites>>

\* ------------------------------------------------------- readiness gates
\* Ingress and egress become ready for good: from now on both predicates
\* answer true.  Before that each call may answer either way.
GatesSettle ==
    /\ ~gatesSettled
    /\ gatesSettled' = TRUE
    /\ UNCHANGED facade
    /\ UNCHANGED <<pc, serviceSpec, ins, tryTimes, att, registered, tenant, done,
                   mutexWriter, mutexReaders, store, qpc, closeCalls,
                   closeSignals, closePanics, faults, now, storeReads, storeWrites>>

Next ==
    \/ \E t \in Calls : RegisterCall(t)
    \/ \E t \in Calls : RegisterRLock(t)
    \/ \E t \in Calls : RegisterGo(t)
    \/ \E t \in Calls : SelectDone(t)
    \/ \E t \in Calls : SelectDefault(t)
    \/ \E t \in Calls : Lock(t)
    \/ \E t \in Calls : Gates(t)
    \/ \E t \in Calls : GateFault(t)
    \/ \E t \in Calls : Read(t)
    \/ \E t \in Calls : ReadFault(t)
    \/ \E t \in Calls : Put(t)
    \/ \E t \in Calls : PutFault(t)
    \/ \E t \in Calls : SleepUnlock(t)
    \/ Close
    \/ RegisteredCall
    \/ RegisteredRLock
    \/ RegisteredReturn
    \/ GatesSettle

Spec == Init /\ [][Next]_vars

\* The steps of the t-th Register call after it was entered, and of the
\* goroutine it starts.
TaskStep(t) ==
    \/ RegisterRLock(t) \/ RegisterGo(t)
    \/ SelectDone(t) \/ SelectDefault(t) \/ Lock(t)
    \/ Gates(t) \/ GateFault(t)
    \/ Read(t) \/ ReadFault(t)
    \/ Put(t) \/ PutFault(t)
    \/ SleepUnlock(t)

\* Scheduling: a goroutine or thread that can take its next step takes it
\* (the Go scheduler runs every runnable goroutine; store calls and
\* predicates return or panic; Sleep ends).  A goroutine waiting in Lock or
\* RLock gets the lock if it is free again and again: sync.RWMutex holds
\* back new readers while a writer waits and hands the lock to waiters that
\* starve.
Fairness ==
    /\ \A t \in Calls : SF_vars(TaskStep(t))
    /\ SF_vars(RegisteredRLock \/ RegisteredReturn)

FairSpec == Spec /\ Fairness

\* The same, in an environment where ingress and egress do become ready
\* for good.
ConvergeSpec == FairSpec /\ WF_vars(GatesSettle)

\* ------------------------------------------------------- storage.New
\* cls.Mutex(cs.name) returns a handle: the next one the cluster makes.
NewHandle == {created + 1}

\* New: a clusterStorage whose mutexGoReady either created and installed a
\* handle, or failed (the error is logged and the storage is returned with
\* cs.mutex unset).
New ==
    /\ \/ /\ csMutex = {1}
          /\ created = 1
          /\ createFails = 0
          /\ installs = 1
       \/ /\ csMutex = {}
          /\ created = 0
          /\ createFails = 1
          /\ installs = 0
    /\ lockCalls = 0
    /\ locked = {}
    /\ tpc = [th \in Threads |-> "idle"]
    /\ top = [th \in Threads |-> "none"]
    /\ tlocal = [th \in Threads |-> {}]
    /\ tret = [th \in Threads |-> "none"]
    /\ tcalls = 0
    /\ theld = [th \in Threads |-> {}]

StorageInit == New /\ NewRegistryCenterServer /\ store = Nil

\* --------------------------------------- clusterStorage.Lock / Unlock
\* A thread calls cs.Lock() or cs.Unlock().  A thread whose Lock succeeded
\* calls Unlock next; another thread calls either.
StorageCall(th) ==
    /\ tpc[th] = "idle"
    /\ tcalls < MaxFacadeCalls
    /\ \E op \in (IF theld[th] # {} THEN {"Unlock"} ELSE {"Lock", "Unlock"}) :
          top' = [top EXCEPT ![th] = op]
    /\ tcalls' = tcalls + 1
    /\ tpc' = [tpc EXCEPT ![th] = "ready"]
    /\ tret' = [tret EXCEPT ![th] = "none"]
    /\ tlocal' = [tlocal EXCEPT ![th] = {}]
    /\ UNCHANGED <<csMutex, created, createFails, installs, lockCalls, locked, theld>>
    /\ UNCHANGED server

\* mutexGoReady, line 59: if cs.mutex != nil { return nil }
mutexGoReadyCheck(th) ==
    /\ tpc[th] = "ready"
    /\ tpc' = [tpc EXCEPT ![th] = IF csMutex # {} THEN "call" ELSE "create"]
    /\ UNCHANGED <<csMutex, created, createFails, installs, lockCalls, locked, top,
                   tlocal, tret, tcalls, theld>>
    /\ UNCHANGED server

\* mutexGoReady, line 63: cs.cls.Mutex(cs.name) returns a handle.
mutexGoReadyCreate(th) ==
    /\ tpc[th] = "create"
    /\ tlocal' = [tlocal EXCEPT ![th] = NewHandle]
    /\ created' = created + 1
    /\ tpc' = [tpc EXCEPT ![th] = "assign"]
    /\ UNCHANGED <<csMutex, createFails, installs, lockCalls, locked, top, tret,
                   tcalls, theld>>
    /\ UNCHANGED server

\* mutexGoReady that installs a broken handle (0) when the creation fails.
mutexGoReadyFail_CacheBroken(th) ==
    /\ tpc[th] = "create"
    /\ createFails < MaxCreateFails
    /\ createFails' = createFails + 1
    /\ csMutex' = {0}
    /\ tret' = [tret EXCEPT ![th] = "error"]
    /\ tpc' = [tpc EXCEPT ![th] = "idle"]
    /\ UNCHANGED <<created, installs, lockCalls, locked, top, tlocal, tcalls, theld>>
    /\ UNCHANGED server

\* mutexGoReady, lines 63-66: cs.cls.Mutex(cs.name) fails; mutexGoReady
\* returns the error and Lock / Unlock return it (lines 75-77, 84-86).
mutexGoReadyFail(th) ==
    /\ tpc[th] = "create"
    /\ createFails < MaxCreateFails
    /\ createFails' = createFails + 1
    /\ tret' = [tret EXCEPT ![th] = "error"]
    /\ tpc' = [tpc EXCEPT ![th] = "idle"]
    /\ UNCHANGED <<csMutex, created, installs, lockCalls, locked, top, tlocal,
                   tcalls, theld>>
    /\ UNCHANGED server

\* mutexGoReady, line 68: cs.mutex = mutex
mutexGoReadyAssign(th) ==
    /\ tpc[th] = "assign"
    /\ csMutex' = tlocal[th]
    /\ installs' = installs + 1
    /\ tpc' = [tpc EXCEPT ![th] = "call"]
    /\ UNCHANGED <<created, createFails, lockCalls, locked, top, tlocal, tret,
                   tcalls, theld>>
    /\ UNCHANGED server

\* Lock, line 79: cs.mutex.Lock() is called on the handle cs.mutex holds now.
LockEnter(th) ==
    /\ tpc[th] = "call"
    /\ top[th] = "Lock"
    /\ tlocal' = [tlocal EXCEPT ![th] = csMutex]
    /\ lockCalls' = lockCalls + 1
    /\ tpc' = [tpc EXCEPT ![th] = "wait"]
    /\ UNCHANGED <<csMutex, created, createFails, installs, locked, top, tret,
                   tcalls, theld>>
    /\ UNCHANGED server

\* The handle's Lock blocks while the handle is locked.
MutexFree(h) == h \cap locked = {}

\* Lock, line 79: the handle's Lock returns; Lock returns nil.
LockReturn(th) ==
    /\ tpc[th] = "wait"
    /\ MutexFree(tlocal[th])
    /\ locked' = locked \cup tlocal[th]
    /\ theld' = [theld EXCEPT ![th] = tlocal[th]]
    /\ tret' = [tret EXCEPT ![th] = "ok"]
    /\ tlocal' = [tlocal EXCEPT ![th] = {}]
    /\ tpc' = [tpc EXCEPT ![th] = "idle"]
    /\ UNCHANGED <<csMutex, created, createFails, installs, lockCalls, top, tcalls>>
    /\ UNCHANGED server

\* Unlock, line 88: cs.mutex.Unlock() is called on the handle cs.mutex holds
\* now and releases it; on a handle that is not locked it answers either
\* way.
UnlockCall(th) ==
    /\ tpc[th] = "call"
    /\ top[th] = "Unlock"
    /\ tlocal' = [tlocal EXCEPT ![th] = {}]
    /\ lockCalls' = lockCalls + 1
    /\ locked' = locked \ csMutex
    /\ theld' = [theld EXCEPT ![th] = {}]
    /\ \E r \in (IF MutexFree(csMutex) THEN {"ok", "error"} ELSE {"ok"}) :
          tret' = [tret EXCEPT ![th] = r]
    /\ tpc' = [tpc EXCEPT ![th] = "idle"]
    /\ UNCHANGED <<csMutex, created, createFails, installs, top, tcalls>>
    /\ UNCHANGED server

StorageNext ==
    \E th \in Threads :
       \/ StorageCall(th)
       \/ mutexGoReadyCheck(th)
       \/ mutexGoReadyCreate(th)
       \/ mutexGoReadyFail(th)
       \/ mutexGoReadyAssign(th)
       \/ LockEnter(th)
       \/ LockReturn(th)
       \/ UnlockCall(th)

StorageSpec == StorageInit /\ [][StorageNext]_vars

\* ======================================================= properties
\* The goroutines of rcs.register that are started and have not returned.
RunningTasks == {t \in Calls : pc[t] \in TaskPcs}

\* The desired record of goroutine t differs in IP or Port from record r
\* (or r is absent).
AbsentOrMoved(r, t) ==
    \/ r = Nil
    \/ r.IP # ServerIP
    \/ r.Port # serviceSpec[t].IngressPort

\* C1: at most one background reconciliation task of the Server exists
\* (started and not yet terminated) at any time, for any sequence of
\* Register calls.
C1_AtMostOneTask == Cardinality(RunningTasks) <= 1

\* C2: once Close has been called, no goroutine starts a new attempt (a run
\* of routine()), so no store call is issued by an attempt started after
\* Close.
C2_NoAttemptAfterClose == \A t \in Calls : ~att[t].afterClose

\* C3: an attempt writes to the store only if the record it read is absent
\* or has an IP or Port different from the desired record; when the record
\* read has the same IP and Port (whatever its labels, status, time) the
\* attempt issues no write and rcs.registered is true.
C3_WriteOnlyOnDrift ==
    \A t \in Calls :
       /\ (pc[t] = "put" \/ att[t].writes > 0)
             => /\ att[t].reads = 1
                /\ AbsentOrMoved(att[t].origin, t)
       /\ (att[t].origin # Nil /\ ~AbsentOrMoved(att[t].origin, t))
             => /\ att[t].writes = 0
                /\ pc[t] = "sleep"
                /\ registered

\* C3 witness: a goroutine read a record with its IP and Port but other
\* labels, status and time, wrote nothing, and the Server is registered.
C3_Witness ==
    \E t \in Calls :
       /\ pc[t] = "sleep"
       /\ att[t].origin # Nil
       /\ ~AbsentOrMoved(att[t].origin, t)
       /\ att[t].origin.Labels # ins[t].Labels
       /\ att[t].origin.Status # SerivceStatusUp
       /\ registered
       /\ storeWrites = 0

\* The store holds the desired record of goroutine t: its IP and Port,
\* Status up and a RegistryTime set.
StoreHoldsDesired(t) ==
    /\ store # Nil
    /\ store.ServiceName = ServiceName
    /\ store.InstanceID = InstanceID
    /\ store.IP = ServerIP
    /\ store.Port = serviceSpec[t].IngressPort
    /\ store.Status = SerivceStatusUp
    /\ store.RegistryTime # ""

\* C4: when both readiness gates answer true and the stored record is
\* absent or differs from the desired one in IP or Port, an attempt (whose
\* store calls return, i.e. without a runtime fault) issues exactly one
\* store write, and after it the store holds the desired record (IP, Port,
\* Status up, RegistryTime set) and rcs.registered is true.
C4_UpdateOnDrift ==
    \A t \in Calls :
       (/\ pc[t] = "sleep"
        /\ att[t].evaluated /\ att[t].ingress /\ att[t].egress
        /\ AbsentOrMoved(att[t].before, t)
        /\ ~att[t].fault)
          => /\ att[t].reads = 1
             /\ att[t].writes = 1
             /\ StoreHoldsDesired(t)
             /\ registered

\* C4 witness: an attempt found a record at another IP and replaced it.
C4_Witness ==
    \E t \in Calls :
       /\ pc[t] = "sleep"
       /\ att[t].before # Nil
       /\ att[t].before.IP # ServerIP
       /\ att[t].writes = 1
       /\ ~att[t].fault
       /\ StoreHoldsDesired(t)
       /\ registered

\* C5: if either readiness predicate answers false in an attempt, the
\* attempt issues no store read and no store write and leaves
\* rcs.registered false, and the goroutine goes on to its next iteration
\* (it does not return).
C5_GateBlocking ==
    /\ [](\A t \in Calls :
             (att[t].evaluated /\ (~att[t].ingress \/ ~att[t].egress))
                => /\ pc[t] = "sleep"
                   /\ att[t].reads = 0
                   /\ att[t].writes = 0
                   /\ ~registered)
    /\ [][\A t \in Calls :
             (att[t].evaluated /\ (~att[t].ingress \/ ~att[t].egress) /\ pc'[t] # pc[t])
                => /\ pc'[t] = "select"
                   /\ storeReads' = storeReads
                   /\ storeWrites' = storeWrites
                   /\ store' = store]_vars

\* C5 witness: ingress ready, egress not: the attempt is over without a
\* store call.
C5_Witness ==
    \E t \in Calls :
       /\ pc[t] = "sleep"
       /\ att[t].evaluated /\ att[t].ingress /\ ~att[t].egress
       /\ storeReads = 0

\* rcs.registered is true and the attempt that set it is over: no goroutine
\* is inside routine().
RegisteredAttemptOver == registered /\ \A t \in Calls : pc[t] \notin AttemptPcs

\* C6: after the attempt that set rcs.registered has finished, no goroutine
\* issues a store read or write or starts an attempt, and every goroutine
\* that reaches its next iteration returns (at the select or right after
\* taking the lock); the Server issues at most one store write in its
\* lifetime.
C6_AtMostOnceRegistration ==
    /\ [](storeWrites <= 1)
    /\ [][RegisteredAttemptOver =>
            /\ storeReads' = storeReads
            /\ storeWrites' = storeWrites
            /\ store' = store
            /\ \A t \in Calls :
                  /\ pc'[t] \notin AttemptPcs
                  /\ (pc[t] = "select" /\ pc'[t] # pc[t]) => pc'[t] \in {"lock", "stopped"}
                  /\ (pc[t] = "lock" /\ pc'[t] # pc[t]) => pc'[t] = "exited"]_vars

\* C6 witness: two goroutines were started, one wrote the record, and both
\* returned as registered.
C6_Witness ==
    /\ storeWrites = 1
    /\ \E t1, t2 \in Calls : t1 # t2 /\ pc[t1] = "exited" /\ pc[t2] = "exited"

\* C7: rcs.registered never changes from true to false (so it changes from
\* false to true at most once), whatever Register, Registered, Close, the
\* goroutines and the faults do.
C7_RegisteredMonotonic == [][registered => registered']_vars

\* C7 witness: the Server is registered although the store write of the
\* registering attempt panicked, and Close was called afterwards.
C7_Witness ==
    /\ registered
    /\ faults > 0
    /\ storeWrites = 1
    /\ store = Nil
    /\ done = "closed"

\* C8: a call of Registered() made while a goroutine is in the middle of a
\* store read or write, or in the sleep that follows, returns without
\* waiting: its RLock is not held up.
C8_RegisteredNeverWaits ==
    (qpc = "rlock" /\ \E t \in Calls : pc[t] \in {"read", "put", "sleep"}) => CanRLock

\* C9: rcs.done is closed exactly once.  The first Close closes it without
\* fault, whatever the goroutines are doing, and changes neither
\* rcs.registered nor the store; a later Close does not signal a second
\* time: it panics.
C9_CloseOnce ==
    /\ [](/\ closeSignals = (IF done = "closed" THEN 1 ELSE 0)
          /\ closeCalls = closeSignals + closePanics
          /\ closePanics = (IF closeCalls > 1 THEN closeCalls - 1 ELSE 0))
    /\ [][closeCalls' # closeCalls =>
            /\ done' = "closed"
            /\ registered' = registered
            /\ store' = store
            /\ pc' = pc
            /\ IF closeCalls = 0
                  THEN closeSignals' = 1 /\ closePanics' = 0
                  ELSE closeSignals' = closeSignals /\ closePanics' = closePanics + 1]_vars

\* C9 witness: Close was called twice after both goroutines had returned as
\* registered: one signal, one panic.
C9_Witness ==
    /\ closeCalls = 2
    /\ closeSignals = 1
    /\ closePanics = 1
    /\ \E t \in Calls : pc[t] = "exited"

\* C10: every call of Register returns without waiting for a goroutine's
\* attempt, store call or sleep: the Registered() it makes is never held up
\* by a goroutine holding rcs.mutex.
C10_RegisterNeverWaits ==
    \A t \in Calls : pc[t] = "reg_rlock" => CanRLock

\* The store holds a record with the IP and Port goroutine t wants.
StoreAtDesiredAddress(t) ==
    /\ store # Nil
    /\ store.IP = ServerIP
    /\ store.Port = serviceSpec[t].IngressPort

\* C11: a runtime fault raised inside an attempt (in a readiness gate, in
\* the store read or in the store write) is caught inside that attempt: the
\* goroutine does not return, rcs.mutex is released at the end of the
\* iteration, and the next iteration of the goroutine runs a normal attempt:
\* it finds rcs.registered false after taking the lock (as long as the
\* wanted record is not in the store).
C11_FaultContained ==
    /\ [](\A t \in Calls : att[t].fault => (pc[t] = "sleep" /\ mutexWriter = {t}))
    /\ [][\A t \in Calls :
             (att[t].fault /\ pc'[t] # pc[t]) => (pc'[t] = "select" /\ mutexWriter' = {})]_vars
    /\ [](\A t \in Calls :
             (att[t].fault /\ ~StoreAtDesiredAddress(t)) => ~registered)

\* C13: attempts of one Server never overlap: at most one goroutine is
\* inside routine() at any time, and a goroutine that is inside routine() or
\* in the sleep that follows holds rcs.mutex exclusively.
C13_AttemptsNeverOverlap ==
    /\ Cardinality({t \in Calls : pc[t] \in AttemptPcs}) <= 1
    /\ \A t \in Calls : pc[t] \in LockedPcs => (mutexWriter = {t} /\ mutexReaders = 0)

\* C13 witness: two goroutines were started; one is in a store call, the
\* other waits for the lock.
C13_Witness ==
    \E t1, t2 \in Calls : t1 # t2 /\ pc[t1] \in {"read", "put"} /\ pc[t2] = "lock"

\* C14: if the store read or write of an attempt fails, the registration is
\* retried: when the attempt is over rcs.registered is false, so that the
\* next iteration runs routine() again, unless the wanted record is in the
\* store.
C14_RetryAfterStoreFailure ==
    \A t \in Calls :
       (pc[t] = "sleep" /\ att[t].fault /\ att[t].reads + att[t].writes > 0)
          => (StoreAtDesiredAddress(t) \/ ~registered)

\* C15: rcs.registered and rcs.tenant are written only by a goroutine of
\* rcs.register that holds rcs.mutex; Register, Registered and Close write
\* neither.
C15_FieldsWrittenUnderLock ==
    [][(registered' # registered \/ tenant' # tenant)
          => \E t \in Calls : mutexWriter = {t} /\ pc[t] \in AttemptPcs]_vars

\* C16: a goroutine of rcs.register returns only at the select with rcs.done
\* closed, or right after taking the lock with rcs.registered true.  While
\* the gates are not ready and Close is not called it goes on iterating: it
\* does not return and issues no store call.
C16_TwoTerminalStates ==
    /\ [](\A t \in Calls :
             /\ pc[t] = "stopped" => done = "closed"
             /\ pc[t] = "exited" => registered
             /\ (pc[t] = "read" \/ att[t].reads > 0) => (att[t].ingress /\ att[t].egress))
    /\ [](registered => storeReads > 0)
    /\ [][\A t \in Calls :
             (pc[t] \in TaskPcs /\ pc'[t] # pc[t])
                => /\ pc'[t] \in TaskPcs \cup {"stopped", "exited"}
                   /\ pc'[t] = "stopped" => (pc[t] = "select" /\ done = "closed")
                   /\ pc'[t] = "exited" => (pc[t] = "lock" /\ registered)]_vars

\* C16 witness: the gates were never ready and Close was not called: after
\* MaxTries attempts the goroutine is back at the select, still running,
\* and no store call was issued.
C16_Witness ==
    /\ tryTimes = MaxTries
    /\ storeReads = 0 /\ storeWrites = 0
    /\ faults = 0
    /\ done = "open"
    /\ \E t \in Calls : pc[t] = "select" /\ \A u \in Calls \ {t} : pc[u] = "none"

\* C18: whenever Registered() returns true, the store holds a record for
\* (serviceName, instanceID) with the Server's IP and ingress port.
C18_RegisteredImpliesStored ==
    (qpc = "read" /\ registered)
       => /\ store # Nil
          /\ store.ServiceName = ServiceName /\ store.InstanceID = InstanceID
          /\ store.IP = ServerIP
          /\ store.Port \in IngressPorts

\* C12: if Close is called while a goroutine sleeps between attempts, its
\* next cancellation check makes it return, with no store access in
\* between; and after Close every started goroutine eventually returns,
\* also when the gates never become ready.
C12_CloseTerminates ==
    /\ [][\A t \in Calls :
             (done = "closed" /\ pc[t] \in {"sleep", "select"} /\ pc'[t] # pc[t])
                => /\ pc[t] = "sleep" => pc'[t] = "select"
                   /\ pc[t] = "select" => pc'[t] = "stopped"
                   /\ storeReads' = storeReads
                   /\ storeWrites' = storeWrites]_vars
    /\ \A t \in Calls :
          (done = "closed" /\ pc[t] \in TaskPcs) ~> (pc[t] \in {"stopped", "exited"})

\* C12 witness: Close was called while the goroutine slept after an attempt
\* that found the gates not ready; the goroutine has stopped, no store call
\* was issued.
C12_Witness ==
    /\ done = "closed"
    /\ ~gatesSettled
    /\ tryTimes = 1
    /\ now > 1
    /\ storeReads = 0
    /\ \E t \in Calls : pc[t] = "stopped"

\* C17: level-triggered convergence: once a goroutine is started, if the
\* gates become ready for good and Close is never called, then under fair
\* scheduling rcs.registered eventually becomes true and the goroutine
\* returns.
C17_Convergence ==
    \A t \in Calls :
       (pc[t] \in TaskPcs) ~> ((registered /\ pc[t] = "exited") \/ done = "closed")

\* C17 witness: the first attempts found the gates not ready, a later one
\* registered the record, and the goroutine returned; Close was not called.
C17_Witness ==
    /\ done = "open"
    /\ tryTimes > MaxTries
    /\ faults = 0
    /\ registered
    /\ storeWrites = 1
    /\ \E t \in Calls : pc[t] = "exited" /\ StoreAtDesiredAddress(t)

\* C19: Lock and Unlock of the storage initialise cs.mutex lazily and
\* idempotently.  A call that finds a handle in cs.mutex goes on to the
\* underlying call with it, without asking the cluster, and a handle once
\* installed is never unset; the underlying Lock / Unlock is only called
\* on a handle the cluster made.  When cls.Mutex fails, the call returns the
\* error, makes no underlying Lock / Unlock call and leaves cs.mutex as it
\* was; a call that finds cs.mutex unset asks the cluster again.
C19_LazyIdempotentInit ==
    /\ [](/\ csMutex \subseteq 1..created
          /\ \A th \in Threads :
                /\ tpc[th] \in {"call", "wait"} => csMutex # {}
                /\ tpc[th] = "wait" => (tlocal[th] # {} /\ tlocal[th] \subseteq 1..created)
                /\ tret[th] = "error" /\ top[th] = "Lock" => theld[th] = {})
    /\ [][csMutex # {} => csMutex' # {}]_vars
    /\ [][\A th \in Threads :
             (tpc[th] = "ready" /\ tpc'[th] # tpc[th])
                => /\ csMutex' = csMutex
                   /\ created' = created
                   /\ createFails' = createFails
                   /\ lockCalls' = lockCalls
                   /\ tpc'[th] = (IF csMutex # {} THEN "call" ELSE "create")]_vars
    /\ [][\A th \in Threads :
             (tpc[th] = "create" /\ createFails' # createFails /\ tpc'[th] # tpc[th])
                => /\ tret'[th] = "error"
                   /\ tpc'[th] = "idle"
                   /\ lockCalls' = lockCalls
                   /\ locked' = locked
                   /\ theld' = theld
                   /\ csMutex' = csMutex]_vars

\* C19 witness: New could not create the handle; the first Lock of a thread
\* failed too and returned the error; its second Lock created the handle
\* and locked it.  No other thread called.
C19_Witness ==
    \E th \in Threads :
       /\ createFails = 2
       /\ created = 1
       /\ csMutex = {1}
       /\ tcalls = 2
       /\ top[th] = "Lock"
       /\ tret[th] = "ok"
       /\ theld[th] = {1}
       /\ lockCalls = 1
       /\ \A u \in Threads \ {th} : top[u] = "none"

\* C20: one clusterStorage has one mutex handle: the cluster is asked for at
\* most one handle that gets installed, also when several threads call Lock
\* or Unlock while cs.mutex is unset, and a thread whose Lock succeeded
\* holds the handle that cs.mutex names, so that its Unlock releases it.
C20_SingleHandle ==
    /\ created <= 1
    /\ installs <= 1
    /\ \A th \in Threads :
          /\ theld[th] # {} => theld[th] = csMutex
          /\ tpc[th] = "wait" => tlocal[th] = csMutex

====
